---- MODULE Spec2Model ----
(***************************************************************************)
(* Kelly, the AI scientist poet (src/app.py): the response extractor, the  *)
(* local fallback poem generator, the reply controller kelly_reply and the *)
(* Streamlit handlers that drive it.                                       *)
(*                                                                         *)
(* Python strings are TLA+ strings; Len, SubSeq and \o act on them         *)
(* character by character.  Only ASCII can be written here, so the em dash *)
(* of KELLY_SYSTEM_PROMPT is written "-".  Durations are in tenths of a    *)
(* second.  An optional value (None or a value) is a sequence of length 0  *)
(* or 1.                                                                   *)
(***************************************************************************)
EXTENDS Integers, Sequences, FiniteSets, TLC

----------------------------------------------------------------------------
(* Bounds of the model *)

\* longest prompt of the exhaustively enumerated prompts
MaxPromptLen == 4

\* number of questions the transcript may hold before a Clear is needed
MaxAsks == 1

\* the same, for the runs that follow the transcript over several questions
MaxChatAsks == 2

\* longest candidate list and longest part list of the enumerated responses
MaxCands == 2

MaxParts == 1

----------------------------------------------------------------------------
(* Python str operations *)

None == <<>>

Some(v) == <<v>>

\* s[i-1:j] of Python: the characters i..j of s that exist
Slice(s, i, j) ==
    LET lo == IF i < 1 THEN 1 ELSE i
        hi == IF j > Len(s) THEN Len(s) ELSE j
    IN  IF lo > hi THEN "" ELSE SubSeq(s, lo, hi)

\* the i-th character of s, "" when there is none
Char(s, i) == Slice(s, i, i)

\* str.isspace for one ASCII character
IsSpace(c) == c \in {" ", "\t", "\n", "\r", "\f"}

RECURSIVE LStrip(_)
LStrip(s) ==
    IF s # "" /\ IsSpace(Char(s, 1)) THEN LStrip(Slice(s, 2, Len(s))) ELSE s

RECURSIVE RStrip(_)
RStrip(s) ==
    IF s # "" /\ IsSpace(Char(s, Len(s)))
    THEN RStrip(Slice(s, 1, Len(s) - 1))
    ELSE s

\* str.strip()
Strip(s) == RStrip(LStrip(s))

\* sub in s
Contains(s, sub) ==
    \E i \in 1..(Len(s) - Len(sub) + 1) : Slice(s, i, i + Len(sub) - 1) = sub

\* s.find(old) + 1 for a non-empty old, 0 when old does not occur
Find(s, old) ==
    LET hits == {i \in 1..(Len(s) - Len(old) + 1) :
                    SubSeq(s, i, i + Len(old) - 1) = old}
    IN  IF hits = {} THEN 0
        ELSE CHOOSE i \in hits : \A j \in hits : i <= j

RECURSIVE Interleave(_, _)
Interleave(s, new) ==
    IF s = "" THEN new
    ELSE new \o Char(s, 1) \o Interleave(Slice(s, 2, Len(s)), new)

\* s.replace(old, new): every non-overlapping occurrence, left to right,
\* the replacement text is not scanned again
RECURSIVE Replace(_, _, _)
Replace(s, old, new) ==
    IF old = "" THEN Interleave(s, new)
    ELSE LET i == Find(s, old)
         IN  IF i = 0 THEN s
             ELSE Slice(s, 1, i - 1) \o new
                    \o Replace(Slice(s, i + Len(old), Len(s)), old, new)

\* s.split(): the maximal runs of non-whitespace characters
RECURSIVE Split(_)
Split(s) ==
    LET t == LStrip(s)
        ends == {i \in 1..Len(t) : IsSpace(Char(t, i))}
        e == IF ends = {} THEN Len(t) + 1
             ELSE CHOOSE i \in ends : \A j \in ends : i <= j
    IN  IF t = "" THEN <<>>
        ELSE <<Slice(t, 1, e - 1)>> \o Split(Slice(t, e, Len(t)))

\* sep.join(items)
RECURSIVE Join(_, _)
Join(sep, items) ==
    IF items = <<>> THEN ""
    ELSE IF Len(items) = 1 THEN items[1]
    ELSE items[1] \o sep \o Join(sep, Tail(items))

\* number of lines of a text: one more than its line breaks
CountChar(s, c) ==
    Cardinality({i \in 1..Len(s) : Char(s, i) = c})

NumLines(s) == CountChar(s, "\n") + 1

----------------------------------------------------------------------------
(* html.unescape, on ASCII text *)

\* the characters with code points 32..95, in order
AsciiLow ==
    " !\"#$%&'()*+,-./0123456789:;<=>?@ABCDEFGHIJKLMNOPQRSTUVWXYZ[\\]^_"

\* the characters with code points 97..126, in order
AsciiHigh == "abcdefghijklmnopqrstuvwxyz{|}~"

DecDigits == "0123456789"

HexDigitsLower == "0123456789abcdef"

HexDigitsUpper == "0123456789ABCDEF"

IsDecDigit(c) == c # "" /\ Find(DecDigits, c) > 0

IsHexDigit(c) ==
    c # "" /\ (Find(HexDigitsLower, c) > 0 \/ Find(HexDigitsUpper, c) > 0)

HexVal(c) ==
    IF Find(HexDigitsLower, c) > 0 THEN Find(HexDigitsLower, c) - 1
    ELSE Find(HexDigitsUpper, c) - 1

\* [^\t\n\f <&#;], the characters of an entity name
IsNameChar(c) == c # "" /\ c \notin {"\t", "\n", "\f", " ", "<", "&", "#", ";"}

\* the entries of html.entities.html5 that ASCII text can show
Html5Names == {"amp;", "amp", "lt;", "lt", "gt;", "gt", "quot;", "quot"}

Html5(name) ==
    CASE name \in {"amp;", "amp"} -> "&"
      [] name \in {"lt;", "lt"} -> "<"
      [] name \in {"gt;", "gt"} -> ">"
      [] name \in {"quot;", "quot"} -> "\""

\* length of the longest prefix of s, from position i, made of characters
\* that satisfy the class test (1: decimal digit, 2: hex digit, 3: name)
RECURSIVE RunLen(_, _, _)
RunLen(s, i, class) ==
    LET c == Char(s, i)
        ok == CASE class = 1 -> IsDecDigit(c)
                [] class = 2 -> IsHexDigit(c)
                [] OTHER -> IsNameChar(c)
    IN  IF i <= Len(s) /\ ok THEN 1 + RunLen(s, i + 1, class) ELSE 0

Min(a, b) == IF a <= b THEN a ELSE b

\* length of the text that the group of the character-reference pattern
\*   &(#[0-9]+;?|#[xX][0-9a-fA-F]+;?|[^\t\n\f <&#;]{1,32};?)
\* matches at the start of s (s is the text after the "&"); 0 when none
CharrefLen(s) ==
    LET semi(n) == IF Char(s, n + 1) = ";" THEN n + 1 ELSE n
        dec == RunLen(s, 2, 1)
        hex == RunLen(s, 3, 2)
        name == Min(RunLen(s, 1, 3), 32)
    IN  IF Char(s, 1) = "#"
        THEN IF dec > 0 THEN semi(1 + dec)
             ELSE IF Char(s, 2) \in {"x", "X"} /\ hex > 0 THEN semi(2 + hex)
             ELSE 0
        ELSE IF name > 0 THEN semi(name) ELSE 0

RECURSIVE DecValue(_)
DecValue(d) ==
    IF d = "" THEN 0
    ELSE 10 * DecValue(Slice(d, 1, Len(d) - 1))
           + (Find(DecDigits, Char(d, Len(d))) - 1)

RECURSIVE HexValue(_)
HexValue(d) ==
    IF d = "" THEN 0
    ELSE 16 * HexValue(Slice(d, 1, Len(d) - 1)) + HexVal(Char(d, Len(d)))

\* chr(num) after the substitutions of html.unescape; a character that
\* cannot be written in a string of this module (the grave accent and all
\* of non-ASCII) is written "?"
CodePoint(num) ==
    CASE num \in 32..95 -> Char(AsciiLow, num - 31)
      [] num \in 97..126 -> Char(AsciiHigh, num - 96)
      [] num = 9 -> "\t"
      [] num = 10 -> "\n"
      [] num = 12 -> "\f"
      [] num = 13 -> "\r"
      [] num \in (1..8) \cup {11} \cup (14..31) \cup {127} -> ""
      [] OTHER -> "?"

\* the longest proper prefix of name, of two characters or more, that is an
\* entity name; 0 when none
LongestKnownPrefix(name) ==
    LET known == {x \in 2..(Len(name) - 1) : Slice(name, 1, x) \in Html5Names}
    IN  IF known = {} THEN 0
        ELSE CHOOSE x \in known : \A y \in known : y <= x

\* html._replace_charref on the matched group g
ReplaceCharref(g) ==
    LET body == IF Char(g, Len(g)) = ";" THEN Slice(g, 1, Len(g) - 1) ELSE g
        x == LongestKnownPrefix(g)
    IN  IF Char(g, 1) = "#"
        THEN IF Char(g, 2) \in {"x", "X"}
             THEN CodePoint(HexValue(Slice(body, 3, Len(body))))
             ELSE CodePoint(DecValue(Slice(body, 2, Len(body))))
        ELSE IF g \in Html5Names THEN Html5(g)
        ELSE IF x > 0 THEN Html5(Slice(g, 1, x)) \o Slice(g, x + 1, Len(g))
        ELSE "&" \o g

\* html.unescape(s)
RECURSIVE Unescape(_)
Unescape(s) ==
    LET i == Find(s, "&")
        rest == Slice(s, i + 1, Len(s))
        m == CharrefLen(rest)
    IN  IF i = 0 THEN s
        ELSE IF m = 0 THEN Slice(s, 1, i) \o Unescape(rest)
        ELSE Slice(s, 1, i - 1) \o ReplaceCharref(Slice(rest, 1, m))
               \o Unescape(Slice(rest, m + 1, Len(rest)))

----------------------------------------------------------------------------
(* 1. Defaults / persona *)

DEFAULT_MODEL == "models/gemini-flash-latest"

FALLBACK_MODEL == "models/gemini-2.5-pro"

KELLY_SYSTEM_PROMPT ==
    "\nYou are Kelly - an analytical poet and scientist. Answer in the form of a short poem.\n"
    \o "Style: skeptical, analytical, professional. Include one or two practical suggestions or steps.\n"
    \o "Keep lines concise and clear; avoid hype and be evidence-minded.\n"

----------------------------------------------------------------------------
(* 2. Safe extraction of text from a response *)

\* A response is [candidates |-> optional list]; a candidate is
\* [content |-> optional content, finish_reason |-> optional integer]; a
\* content is [parts |-> optional list]; a part is [text |-> optional string].

\* getattr(x, name, []) or []
OrEmpty(opt) == IF opt = None THEN <<>> ELSE opt[1]

\* the texts that the inner loop appends for one candidate
RECURSIVE PartTexts(_)
PartTexts(parts) ==
    IF parts = <<>> THEN <<>>
    ELSE LET txt == Head(parts).text
         IN  (IF txt # None /\ txt[1] # "" THEN <<txt[1]>> ELSE <<>>)
               \o PartTexts(Tail(parts))

\* parts_out after the outer loop over the candidates
RECURSIVE PartsOut(_)
PartsOut(cands) ==
    IF cands = <<>> THEN <<>>
    ELSE LET content == Head(cands).content
         IN  (IF content = None THEN <<>>
              ELSE PartTexts(OrEmpty(content[1].parts)))
               \o PartsOut(Tail(cands))

\* [p.strip() for p in parts_out if p.strip()]
RECURSIVE StrippedNonEmpty(_)
StrippedNonEmpty(texts) ==
    IF texts = <<>> THEN <<>>
    ELSE (IF Strip(Head(texts)) # "" THEN <<Strip(Head(texts))>> ELSE <<>>)
           \o StrippedNonEmpty(Tail(texts))

\* mutant: only the first candidate is read
extract_text_first_candidate(response) ==
    LET cands == OrEmpty(response.candidates)
        parts_out == PartsOut(IF cands = <<>> THEN <<>> ELSE <<Head(cands)>>)
    IN  IF parts_out # <<>>
        THEN Some(Join("\n", StrippedNonEmpty(parts_out)))
        ELSE None

extract_text_from_response(response) ==
    LET parts_out == PartsOut(OrEmpty(response.candidates))
    IN  IF parts_out # <<>>
        THEN Some(Join("\n", StrippedNonEmpty(parts_out)))
        ELSE None

\* lines 134-136: the finish reason of the first candidate, if any
FinishReason(response) ==
    IF OrEmpty(response.candidates) # <<>>
    THEN OrEmpty(response.candidates)[1].finish_reason
    ELSE None

\* mutant: `if text is not None` in place of `if text`
TruthyNotNone(opt) == opt # None

\* truth value of an optional string
Truthy(opt) == opt # None /\ opt[1] # ""

----------------------------------------------------------------------------
(* 3. Local fallback poem generator *)

\* lines 71-78, the six template lines for a topic
PoemLines(topic) ==
    << "In careful lines I study " \o topic \o ",",
       "A generator dreams, a critic critiques;",
       "Adversarial rhythm tunes model feats,",
       "Yet metrics warn where shortcuts meet.",
       "Practical: validate with held-out sets,",
       "Audit samples, and record your bets." >>

\* mutant: the poem is cut to as many lines as the prompt has words
local_poem_fallback_per_word(prompt) ==
    LET p == Strip(Unescape(prompt))
        cut == Strip(Replace(Replace(Replace(p, "pipeline of", ""),
                                     "Explain", ""), "explain", ""))
        topic == IF cut = "" THEN "this topic" ELSE cut
        lines == PoemLines(topic)
    IN  IF Len(Split(p)) <= 3
        THEN Join("\n", SubSeq(lines, 1, Len(Split(p))))
        ELSE Join("\n", lines)

\* mutant: the length test looks at the topic, not at the prompt
local_poem_fallback_topic_len(prompt) ==
    LET p == Strip(Unescape(prompt))
        cut == Strip(Replace(Replace(Replace(p, "pipeline of", ""),
                                     "Explain", ""), "explain", ""))
        topic == IF cut = "" THEN "this topic" ELSE cut
        lines == PoemLines(topic)
    IN  IF Len(Split(topic)) <= 3
        THEN Join("\n", SubSeq(lines, 1, 4))
        ELSE Join("\n", lines)

local_poem_fallback(prompt) ==
    LET p == Strip(Unescape(prompt))
        cut == Strip(Replace(Replace(Replace(p, "pipeline of", ""),
                                     "Explain", ""), "explain", ""))
        topic == IF cut = "" THEN "this topic" ELSE cut
        lines == PoemLines(topic)
    IN  IF Len(Split(p)) <= 3
        THEN Join("\n", SubSeq(lines, 1, 4))
        ELSE Join("\n", lines)

----------------------------------------------------------------------------
(* 4. kelly_reply: the attempt plan and the request text *)

FLASH_MODEL == "models/gemini-flash-latest"

\* mutant: the fast model is appended whatever the preferred model is
ModelAttemptsAlways(name) == <<name, FLASH_MODEL>>

\* lines 99-101
ModelAttempts(name) ==
    IF ~Contains(name, "flash") THEN <<name, FLASH_MODEL>> ELSE <<name>>

NumParaphrases == 3

\* lines 103-107, the k-th paraphrase of q
Paraphrase(k, q) ==
    CASE k = 1 -> q
      [] k = 2 -> q \o " Please explain step by step and include practical suggestions."
      [] k = 3 -> "In scientific terms, describe the stages of: " \o q

\* line 94
System == Strip(KELLY_SYSTEM_PROMPT)

\* line 95
BasePrompt(p) == System \o "\n\nUser: " \o p \o "\nKelly:"

\* line 118, the text sent for the prompt p and its paraphrase q
RequestText(p, q) == Replace(BasePrompt(p), p, q)

\* the backoffs of lines 145, 149 and 154
SLEEP_BLOCKED == 6

SLEEP_EMPTY == 4

SLEEP_ERROR == 6

SAFETY_FINISH_REASON == 2

----------------------------------------------------------------------------
(* 5. Inputs of the user interface and of the remote service *)

\* line 173
ModelOptions ==
    {"models/gemini-flash-latest", "models/gemini-2.5-pro", "models/gemini-2.5-flash"}

\* line 176
MinRetries == 1

MaxRetries == 6

DefaultRetries == 3

\* texts typed into the question box
UserInputs == {"", "  ", "poem", "Explain the pipeline of a GAN"}

Part(t) == [text |-> t]

Candidate(parts, fr) == [content |-> Some([parts |-> Some(parts)]), finish_reason |-> fr]

\* a poem in two parts, finish reason STOP
RespPoem ==
    [candidates |-> Some(<<Candidate(<<Part(Some(" Roses are data, ")), Part(None),
                                       Part(Some("violets are code.\n"))>>, Some(1))>>)]

\* no candidate at all
RespNoCandidates == [candidates |-> Some(<<>>)]

\* a candidate blocked for safety: no content, finish reason 2
RespBlocked ==
    [candidates |-> Some(<<[content |-> None, finish_reason |-> Some(2)]>>)]

\* a candidate whose only part is blank
RespBlank == [candidates |-> Some(<<Candidate(<<Part(Some(" "))>>, Some(1))>>)]

\* a candidate without parts and without a finish reason
RespNoReason ==
    [candidates |-> Some(<<[content |-> Some([parts |-> None]), finish_reason |-> None]>>)]

Responses == {RespPoem, RespNoCandidates, RespBlocked, RespBlank, RespNoReason}

NOTE ==
    "\n\n(Kelly note: the model returned no text; showing a local analytical fallback.)"

----------------------------------------------------------------------------
(* State *)

VARIABLES
    GEMINI_API_KEY,   \* optional string read from the environment (line 14)
    history,          \* st.session_state.history
    submitted,        \* optional: user_input at the last press of Ask Kelly
    pc,               \* "idle", "loop" (inside kelly_reply), "return"
    prompt,           \* arguments of the running kelly_reply
    model_name,
    max_retries,
    attempt,          \* locals of kelly_reply
    model_attempts,
    mdl_i,            \* position of the outer loop in model_attempts
    parap_i,          \* position of the inner loop in paraphrases
    calls,            \* the generate_content calls made so far
    outcomes,         \* per call: "raise", "no_text" or "text"
    sleeps,           \* the time.sleep calls made so far
    outcome,          \* the last call: <<"raise">> or <<"response", r>>
    text,             \* the pair returned by kelly_reply
    source,
    fb_prompt,        \* argument of a direct call of local_poem_fallback
    fb_poem,          \* its optional result
    ex_response,      \* argument of a direct call of extract_text_from_response
    ex_text           \* <<"not called">> or <<"returned", result>>

reply_vars == <<prompt, model_name, max_retries, attempt, model_attempts,
                mdl_i, parap_i, calls, outcomes, sleeps, outcome, text, source>>

fb_vars == <<fb_prompt, fb_poem>>

app_vars == <<GEMINI_API_KEY, history, submitted, pc, reply_vars>>

ex_vars == <<ex_response, ex_text>>

vars == <<app_vars, fb_vars, ex_vars>>

\* mutant: the script goes on without a key
RunningWithoutKey == TRUE

\* lines 16-18: without a key the script stops before anything else runs
Running == Truthy(GEMINI_API_KEY)

\* the values of the variables of kelly_reply while no call of it is running
NoReply ==
    [prompt |-> "", model_name |-> DEFAULT_MODEL, max_retries |-> DefaultRetries,
     attempt |-> 0, model_attempts |-> <<>>, mdl_i |-> 1, parap_i |-> 1,
     calls |-> <<>>, outcomes |-> <<>>, sleeps |-> <<>>, outcome |-> <<"none">>,
     text |-> "", source |-> "none"]

\* the variables of kelly_reply have the values of the record r
ReplyIs(r) ==
    /\ prompt = r.prompt
    /\ model_name = r.model_name
    /\ max_retries = r.max_retries
    /\ attempt = r.attempt
    /\ model_attempts = r.model_attempts
    /\ mdl_i = r.mdl_i
    /\ parap_i = r.parap_i
    /\ calls = r.calls
    /\ outcomes = r.outcomes
    /\ sleeps = r.sleeps
    /\ outcome = r.outcome
    /\ text = r.text
    /\ source = r.source

\* lines 13-20 and 181-182: the state after start-up
Init ==
    /\ GEMINI_API_KEY \in {None, Some(""), Some("secret")}
    /\ history = <<>>
    /\ submitted = None
    /\ pc = "idle"
    /\ ReplyIs(NoReply)
    /\ fb_prompt = ""
    /\ fb_poem = None
    /\ ex_response = RespNoCandidates
    /\ ex_text = <<"not called">>

\* mutant: only the last question and its answer are removed
ClearLastExchange ==
    /\ Running
    /\ pc = "idle"
    /\ history' = IF Len(history) > 2 THEN SubSeq(history, 1, Len(history) - 2) ELSE <<>>
    /\ UNCHANGED <<GEMINI_API_KEY, submitted, pc, reply_vars, fb_vars, ex_vars>>

\* lines 177-178
Clear ==
    /\ Running
    /\ pc = "idle"
    /\ history' = <<>>
    /\ UNCHANGED <<GEMINI_API_KEY, submitted, pc, reply_vars, fb_vars, ex_vars>>

\* mutant: the question is tested without being trimmed
AcceptedUntrimmed(user_input) == user_input # ""

\* line 189: the question is taken when trimming leaves some text
Accepted(user_input) == Strip(user_input) # ""

\* lines 188-191 and 94-107: the button handler up to the first attempt
Ask(user_input, model_choice, retries) ==
    /\ Running
    /\ pc = "idle"
    /\ submitted' = Some(user_input)
    /\ IF Accepted(user_input)
       THEN /\ history' = Append(history, [role |-> "user", content |-> user_input])
            /\ pc' = "loop"
            /\ prompt' = user_input
            /\ model_name' = model_choice
            /\ max_retries' = retries
            /\ attempt' = 0
            /\ model_attempts' = ModelAttempts(model_choice)
            /\ mdl_i' = 1
            /\ parap_i' = 1
            /\ calls' = <<>>
            /\ outcomes' = <<>>
            /\ sleeps' = <<>>
            /\ outcome' = <<"none">>
            /\ text' = ""
            /\ source' = "none"
            /\ UNCHANGED <<GEMINI_API_KEY, fb_vars, ex_vars>>
       ELSE UNCHANGED <<GEMINI_API_KEY, history, pc, reply_vars, fb_vars, ex_vars>>

InLoop == pc = "loop" /\ mdl_i <= Len(model_attempts)

\* mutant: a failed attempt gives up the model (`break` for `continue`)
ContinueNextModel == mdl_i' = mdl_i + 1 /\ parap_i' = 1

\* `continue`: the inner loop moves on, and the outer one after the last
\* paraphrase
Continue ==
    IF parap_i = NumParaphrases
    THEN mdl_i' = mdl_i + 1 /\ parap_i' = 1
    ELSE mdl_i' = mdl_i /\ parap_i' = parap_i + 1

\* mutant: the last attempt of the budget is not made
OverBudgetEarly == attempt + 1 >= max_retries

\* mutant: the budget is tested before the counter is incremented
OverBudgetLate == attempt > max_retries

\* lines 111-112: the counter after its increment is over the budget
OverBudget == attempt + 1 > max_retries

\* lines 114-118: the call made for the current pair
CallRecord ==
    [mdl |-> model_attempts[mdl_i],
     q |-> Paraphrase(parap_i, prompt),
     request |-> RequestText(prompt, Paraphrase(parap_i, prompt))]

\* lines 111-113: the budget is used up, `break` leaves the inner loop
Break ==
    /\ InLoop
    /\ OverBudget
    /\ attempt' = attempt + 1
    /\ mdl_i' = mdl_i + 1
    /\ parap_i' = 1
    /\ UNCHANGED <<GEMINI_API_KEY, submitted, history, pc, prompt, model_name, max_retries,
                   model_attempts, calls, outcomes, sleeps, outcome, text, source,
                   fb_vars, ex_vars>>

\* lines 152-155: the remote call raises
RemoteRaises(call) ==
    /\ attempt' = attempt + 1
    /\ calls' = Append(calls, call)
    /\ outcomes' = Append(outcomes, "raise")
    /\ outcome' = <<"raise">>
    /\ sleeps' = Append(sleeps, SLEEP_ERROR)
    /\ Continue
    /\ UNCHANGED <<pc, text, source>>

\* mutant: the text is kept but the loops go on
ReturnRemoteGoOn(txt) ==
    /\ text' = Strip(txt[1])
    /\ source' = "gemini"
    /\ Continue
    /\ UNCHANGED <<pc, sleeps>>

\* lines 138-140: success, kelly_reply returns
ReturnRemote(txt) ==
    /\ text' = Strip(txt[1])
    /\ source' = "gemini"
    /\ pc' = "return"
    /\ UNCHANGED <<mdl_i, parap_i, sleeps>>

\* mutant: the short backoff whatever the finish reason is
BackoffFlat(fr) ==
    /\ sleeps' = Append(sleeps, SLEEP_EMPTY)
    /\ Continue
    /\ UNCHANGED <<pc, text, source>>

\* lines 142-150: no text, back off and go on
Backoff(fr) ==
    /\ sleeps' = Append(sleeps, IF fr = Some(SAFETY_FINISH_REASON)
                                THEN SLEEP_BLOCKED ELSE SLEEP_EMPTY)
    /\ Continue
    /\ UNCHANGED <<pc, text, source>>

\* lines 131-150: the remote call returns a response
RemoteResponds(call, response) ==
    LET txt == extract_text_from_response(response)
        fr == FinishReason(response)
    IN  /\ attempt' = attempt + 1
        /\ calls' = Append(calls, call)
        /\ outcomes' = Append(outcomes, IF Truthy(txt) THEN "text" ELSE "no_text")
        /\ outcome' = <<"response", response>>
        /\ IF Truthy(txt) THEN ReturnRemote(txt) ELSE Backoff(fr)

\* lines 111-155: one attempt that is within the budget: the request is
\* composed, the service is called, and it raises or answers
RemoteCall ==
    /\ InLoop
    /\ ~OverBudget
    /\ LET call == CallRecord
       IN  \/ RemoteRaises(call)
           \/ \E response \in Responses : RemoteResponds(call, response)
    /\ UNCHANGED <<GEMINI_API_KEY, submitted, history, prompt, model_name, max_retries,
                   model_attempts, fb_vars, ex_vars>>

\* mutant: the fallback poem is made from the last paraphrase q
FallbackParaphrased ==
    /\ pc = "loop"
    /\ mdl_i > Len(model_attempts)
    /\ text' = local_poem_fallback(calls[Len(calls)].q)
    /\ source' = "fallback"
    /\ pc' = "return"
    /\ UNCHANGED <<GEMINI_API_KEY, submitted, history, prompt, model_name, max_retries,
                   attempt, model_attempts, mdl_i, parap_i, calls, outcomes,
                   sleeps, outcome, fb_vars, ex_vars>>

\* lines 157-159: both loops are over
Fallback ==
    /\ pc = "loop"
    /\ mdl_i > Len(model_attempts)
    /\ text' = local_poem_fallback(prompt)
    /\ source' = "fallback"
    /\ pc' = "return"
    /\ UNCHANGED <<GEMINI_API_KEY, submitted, history, prompt, model_name, max_retries,
                   attempt, model_attempts, mdl_i, parap_i, calls, outcomes,
                   sleeps, outcome, fb_vars, ex_vars>>

\* mutant: the note is added whatever the source is
AnnotatedAlways == text \o NOTE

\* lines 193-194: the text of the assistant turn
Annotated == IF source = "fallback" THEN text \o NOTE ELSE text

\* lines 192-195: the handler appends the assistant turn; the locals of
\* kelly_reply and of the handler are gone with the end of the script run
Finish ==
    /\ pc = "return"
    /\ history' = Append(history, [role |-> "assistant", content |-> Annotated])
    /\ pc' = "idle"
    /\ prompt' = NoReply.prompt
    /\ model_name' = NoReply.model_name
    /\ max_retries' = NoReply.max_retries
    /\ attempt' = NoReply.attempt
    /\ model_attempts' = NoReply.model_attempts
    /\ mdl_i' = NoReply.mdl_i
    /\ parap_i' = NoReply.parap_i
    /\ calls' = NoReply.calls
    /\ outcomes' = NoReply.outcomes
    /\ sleeps' = NoReply.sleeps
    /\ outcome' = NoReply.outcome
    /\ text' = NoReply.text
    /\ source' = NoReply.source
    /\ UNCHANGED <<GEMINI_API_KEY, submitted, fb_vars, ex_vars>>

\* lines 171-176 and 186-188: the button is pressed with some question,
\* model and budget; a question that will be taken needs room in the
\* transcript
PressAsk ==
    \E user_input \in UserInputs, model_choice \in ModelOptions,
       retries \in MinRetries..MaxRetries :
         /\ Accepted(user_input) => Len(history) < 2 * MaxAsks
         /\ Ask(user_input, model_choice, retries)

Next ==
    \/ Clear
    \/ PressAsk
    \/ Break
    \/ RemoteCall
    \/ Fallback
    \/ Finish

Spec == Init /\ [][Next]_vars

----------------------------------------------------------------------------
(* The chat session over several questions, with few settings *)

ChatInputs == {"", "poem"}

ChatRetries == {MinRetries, MinRetries + 1}

PressAskChat ==
    \E user_input \in ChatInputs, retries \in ChatRetries :
       /\ Accepted(user_input) => Len(history) < 2 * MaxChatAsks
       /\ Ask(user_input, DEFAULT_MODEL, retries)

NextChat ==
    \/ Clear
    \/ PressAskChat
    \/ Break
    \/ RemoteCall
    \/ Fallback
    \/ Finish

SpecChat == Init /\ [][NextChat]_vars

----------------------------------------------------------------------------
(* local_poem_fallback called on its own, on prompts of every shape *)

Alphabet == {"a", " ", ".", "\n"}

RECURSIVE StringsOfLen(_)
StringsOfLen(n) ==
    IF n = 0 THEN {""}
    ELSE {s \o c : s \in StringsOfLen(n - 1), c \in Alphabet}

SamplePrompts ==
    {"AI", "poem", "Explain the pipeline of a GAN", "a b c d", "?!", "\t \n",
     "explain", "pipeline of", "Explain this: &lt;b&gt; &amp; more", "&#32;",
     "one two three", "one two three four", "a&#10;b"}

FallbackInputs ==
    SamplePrompts \cup UNION {StringsOfLen(n) : n \in 0..MaxPromptLen}

InitFallback ==
    /\ GEMINI_API_KEY = Some("secret")
    /\ history = <<>>
    /\ submitted = None
    /\ pc = "idle"
    /\ ReplyIs(NoReply)
    /\ fb_prompt \in FallbackInputs
    /\ fb_poem = None
    /\ ex_response = RespNoCandidates
    /\ ex_text = <<"not called">>

CallFallback ==
    /\ fb_poem' = Some(local_poem_fallback(fb_prompt))
    /\ UNCHANGED <<fb_prompt, app_vars, ex_vars>>

NextFallback == CallFallback

SpecFallback == InitFallback /\ [][NextFallback]_vars

----------------------------------------------------------------------------
(* extract_text_from_response called on its own, on responses of every shape *)

\* the text attribute of a part: missing, empty, blank, plain, padded
PartTextValues == {None, Some(""), Some(" "), Some("a"), Some(" b\n")}

\* the sequences over S of length at most n
SeqsUpTo(S, n) == UNION {[1..k -> S] : k \in 0..n}

PartLists == SeqsUpTo({Part(t) : t \in PartTextValues}, MaxParts)

\* the content attribute of a candidate: missing, without parts, with parts
Contents ==
    {None, Some([parts |-> None])} \cup {Some([parts |-> Some(ps)]) : ps \in PartLists}

Candidates == {[content |-> c, finish_reason |-> Some(1)] : c \in Contents}

GeneratedResponses ==
    {[candidates |-> None]}
      \cup {[candidates |-> Some(cs)] : cs \in SeqsUpTo(Candidates, MaxCands)}

\* three candidates: texts around a blank part, no content, a missing text
RespThreeCandidates ==
    [candidates |->
       Some(<<Candidate(<<Part(Some("a")), Part(Some(" ")), Part(Some(" b\n"))>>, Some(1)),
              [content |-> None, finish_reason |-> None],
              Candidate(<<Part(None), Part(Some("c\nd "))>>, None)>>)]

\* blank and empty parts only, in two candidates
RespAllBlank ==
    [candidates |->
       Some(<<Candidate(<<Part(Some("")), Part(Some(" \n"))>>, Some(1)),
              Candidate(<<Part(Some("\t")), Part(None)>>, Some(1))>>)]

SampleResponses == Responses \cup {RespThreeCandidates, RespAllBlank}

ExtractInputs == SampleResponses \cup GeneratedResponses

InitExtract ==
    /\ GEMINI_API_KEY = Some("secret")
    /\ history = <<>>
    /\ submitted = None
    /\ pc = "idle"
    /\ ReplyIs(NoReply)
    /\ fb_prompt = ""
    /\ fb_poem = None
    /\ ex_response \in ExtractInputs
    /\ ex_text = <<"not called">>

CallExtract ==
    /\ ex_text' = <<"returned", extract_text_from_response(ex_response)>>
    /\ UNCHANGED <<ex_response, app_vars, fb_vars>>

NextExtract == CallExtract

SpecExtract == InitExtract /\ [][NextExtract]_vars

----------------------------------------------------------------------------
(* Properties of the reply controller *)

\* the text that the last call's response yields, None after a raise
LastExtracted ==
    IF outcome[1] = "response" THEN extract_text_from_response(outcome[2]) ELSE None

\* C1: kelly_reply never makes more than max_retries remote calls; with a
\* budget of 3 and no text from any response it makes exactly 3 calls and
\* returns a fallback-tagged result.
C1_AttemptBudget ==
    /\ Len(calls) <= max_retries
    /\ Len(outcomes) = Len(calls)
    /\ (pc = "return" /\ max_retries = 3
          /\ \A i \in 1..Len(outcomes) : outcomes[i] = "no_text")
       => (Len(calls) = 3 /\ source = "fallback")

C1_Witness ==
    /\ pc = "return"
    /\ max_retries = 3
    /\ outcomes = <<"no_text", "no_text", "no_text">>
    /\ source = "fallback"

\* C2: the first attempt whose response yields non-empty text ends
\* kelly_reply: it returns that text tagged "gemini", and no call follows.
C2_FirstSuccessWins ==
    /\ \A i \in 1..Len(outcomes) :
          outcomes[i] = "text"
          => (i = Len(outcomes) /\ Len(calls) = i /\ pc = "return" /\ source = "gemini")
    /\ Truthy(LastExtracted)
       => (pc = "return" /\ source = "gemini" /\ text = LastExtracted[1]
             /\ outcomes[Len(outcomes)] = "text")
    /\ source = "gemini" => Truthy(LastExtracted)

C2_Witness ==
    /\ pc = "return"
    /\ source = "gemini"
    /\ Len(calls) = 3
    /\ outcomes = <<"raise", "no_text", "text">>

\* the pairs of the attempt plan that the loops have not yet visited
PairsLeft ==
    NumParaphrases * (Len(model_attempts) + 1 - mdl_i) - (parap_i - 1)

\* C3: whatever the remote calls do, raising included, kelly_reply goes on
\* to its return, which it reaches after a bounded number of steps, never
\* raises, and returns a pair whose text is not empty.
C3_AlwaysReplies ==
    /\ [](pc = "return" => (text # "" /\ source \in {"gemini", "fallback"}))
    /\ [](pc = "loop" => (PairsLeft >= 0 /\ attempt + PairsLeft <= 2 * NumParaphrases))
    /\ [][pc = "loop"
            => /\ pc' \in {"loop", "return"}
               /\ pc' = "loop" => PairsLeft' < PairsLeft
               /\ outcome' = <<"raise">> /\ calls' # calls => pc' = "loop"]_vars

C3_Witness ==
    /\ pc = "return"
    /\ Len(calls) = MaxRetries
    /\ \A i \in 1..Len(outcomes) : outcomes[i] = "raise"
    /\ text # ""

\* C4: the result is tagged "fallback" exactly when no attempt yielded
\* non-empty text, and its text is then local_poem_fallback of the prompt as
\* the user typed it.
C4_FallbackIffNoText ==
    /\ outcome[1] = "response"
       => (outcomes[Len(outcomes)] = "text" <=> Truthy(LastExtracted))
    /\ outcome[1] = "raise" => outcomes[Len(outcomes)] = "raise"
    /\ pc = "return"
       => /\ source = "fallback" <=> (\A i \in 1..Len(outcomes) : outcomes[i] # "text")
          /\ source = "fallback"
             => /\ prompt = history[Len(history)].content
                /\ text = local_poem_fallback(history[Len(history)].content)

C4_Witness ==
    /\ pc = "return"
    /\ source = "fallback"
    /\ outcome = <<"response", RespBlank>>
    /\ Len(calls) >= 2

\* C5: the k-th call uses model number ceil(k/3) of the model list and the
\* paraphrases in the order identity, step-by-step suffix, scientific-terms
\* prefix; failures skip no pair.
C5_ModelMajorOrder ==
    \A k \in 1..Len(calls) :
       /\ ((k - 1) \div 3) + 1 <= Len(model_attempts)
       /\ calls[k].mdl = model_attempts[((k - 1) \div 3) + 1]
       /\ calls[k].q =
            CASE (k - 1) % 3 = 0 -> prompt
              [] (k - 1) % 3 = 1 ->
                   prompt \o " Please explain step by step and include practical suggestions."
              [] (k - 1) % 3 = 2 ->
                   "In scientific terms, describe the stages of: " \o prompt

C5_Witness ==
    /\ Len(calls) = 6
    /\ calls[4].mdl # calls[3].mdl
    /\ "raise" \in {outcomes[i] : i \in 1..Len(outcomes)}
    /\ "no_text" \in {outcomes[i] : i \in 1..Len(outcomes)}

C7_RequestIsPreambleThenParaphrase ==
    \A k \in 1..Len(calls) :
       calls[k].request = System \o "\n\nUser: " \o calls[k].q \o "\nKelly:"

\* the response r has a first candidate whose finish reason is 2
FirstCandidateBlocked(r) ==
    /\ r.candidates # None
    /\ Len(r.candidates[1]) > 0
    /\ r.candidates[1][1].finish_reason = <<2>>

\* the number of failed attempts among the outcomes
Failures == Cardinality({i \in 1..Len(outcomes) : outcomes[i] # "text"})

\* C17: every failed attempt is followed by exactly one backoff, of 0.6 s
\* after a raise, 0.6 s after a response without text whose first candidate
\* has finish reason 2, and 0.4 s after any other response without text (no
\* candidates included); a successful attempt is followed by none; a
\* failure takes one attempt slot; sleeps happen nowhere else. Durations
\* are in tenths of a second.
C17_OneBackoffPerFailure ==
    /\ [](Len(sleeps) = Failures)
    /\ [][(pc = "loop" /\ calls' # calls)
            => /\ Len(calls') = Len(calls) + 1
               /\ attempt' = attempt + 1
               /\ IF outcome'[1] = "raise"
                  THEN sleeps' = Append(sleeps, 6) /\ pc' = "loop"
                  ELSE IF Truthy(extract_text_from_response(outcome'[2]))
                  THEN sleeps' = sleeps /\ pc' = "return"
                  ELSE IF FirstCandidateBlocked(outcome'[2])
                  THEN sleeps' = Append(sleeps, 6) /\ pc' = "loop"
                  ELSE sleeps' = Append(sleeps, 4) /\ pc' = "loop"]_vars
    /\ [][(pc = "loop" /\ calls' = calls) => sleeps' = sleeps]_vars

C17_Witness ==
    /\ pc = "return"
    /\ source = "gemini"
    /\ outcomes = <<"raise", "no_text", "no_text", "no_text", "text">>
    /\ sleeps = <<6, 6, 4, 4>>

\* the number of models that the attempt plan has for the preferred model
PlanModels == IF Contains(model_name, "flash") THEN 1 ELSE 2

----------------------------------------------------------------------------
(* Properties of the chat session *)

\* C13: a question that is empty or blank is not taken: kelly_reply never
\* runs on it, it never becomes a user turn, and the press that submits it
\* leaves the transcript and the state of kelly_reply (its calls included)
\* as they were.
C13_BlankRejected ==
    /\ [](pc # "idle" => Strip(prompt) # "")
    /\ [](\A i \in 1..Len(history) :
            history[i].role = "user" => Strip(history[i].content) # "")
    /\ [][(submitted' # submitted /\ Strip(submitted'[1]) = "")
            => UNCHANGED <<history, pc, reply_vars>>]_vars

C13_Witness ==
    /\ submitted = Some("  ")
    /\ pc = "idle"
    /\ Len(history) = 2
    /\ calls = <<>>

\* the disclosure note as the claim words it
KELLY_NOTE == "(Kelly note: the model returned no text; showing a local analytical fallback.)"

\* C14: the assistant turn appended for a fallback-tagged result is the
\* fallback text, two newlines and the note; for a remote-tagged result it
\* is the reply text as returned; so the note is added exactly when the
\* result is fallback-tagged.
C14_NoteIffFallback ==
    [][pc = "return"
         => /\ Len(history') = Len(history) + 1
            /\ history'[Len(history')].role = "assistant"
            /\ source = "fallback"
               => history'[Len(history')].content = text \o "\n\n" \o KELLY_NOTE
            /\ source = "gemini" => history'[Len(history')].content = text
            /\ source \in {"fallback", "gemini"}
            /\ history'[Len(history')].content = text \o "\n\n" \o KELLY_NOTE
               <=> source = "fallback"]_vars

C14_Witness ==
    /\ pc = "idle"
    /\ Len(history) = 2
    /\ history[2] = [role |-> "assistant",
                     content |-> local_poem_fallback("poem") \o "\n\n" \o KELLY_NOTE]

\* C15: the transcript alternates user, assistant and has even length
\* whenever no question is being answered; it changes only by an accepted
\* question appending the user turn with the submitted text, by the end of
\* the answer appending one assistant turn, both leaving the earlier turns
\* in place, or by Clear, which removes every turn.
C15_AppendOnly ==
    /\ [](\A i \in 1..Len(history) :
            history[i].role = IF i % 2 = 1 THEN "user" ELSE "assistant")
    /\ [](pc = "idle" => Len(history) % 2 = 0)
    /\ [][history' # history
            => \/ /\ pc = "idle" /\ pc' = "loop"
                  /\ history' = Append(history, [role |-> "user", content |-> submitted'[1]])
               \/ /\ pc = "return" /\ pc' = "idle"
                  /\ Len(history') = Len(history) + 1
                  /\ SubSeq(history', 1, Len(history)) = history
                  /\ history'[Len(history')].role = "assistant"
               \/ /\ pc = "idle" /\ pc' = "idle"
                  /\ history' = <<>>
                  /\ UNCHANGED <<submitted, reply_vars>>]_vars
    /\ [][(pc = "idle" /\ pc' = "loop") \/ pc = "return"
            => Len(history') = Len(history) + 1]_vars

C15_Witness ==
    /\ pc = "idle"
    /\ Len(history) = 4
    /\ history[2].content # history[4].content

\* C16: when the API key is missing (or empty) at start-up, nothing is
\* ever served: no press of Ask Kelly is processed, kelly_reply never runs,
\* no remote call is made and the transcript stays empty.
C16_NoKeyNoService ==
    GEMINI_API_KEY \in {None, Some("")}
    => /\ submitted = None
       /\ pc = "idle"
       /\ calls = <<>>
       /\ history = <<>>

C16_Witness ==
    /\ GEMINI_API_KEY = None
    /\ history = <<>>
    /\ pc = "idle"

----------------------------------------------------------------------------
(* Properties of the local fallback generator *)

\* C8: local_poem_fallback returns a non-empty text for every prompt, the
\* empty, the blank and the punctuation-only ones included.
C8_FallbackNeverEmpty ==
    fb_poem # None
    => /\ Len(fb_poem[1]) > 0
       /\ SubSeq(fb_poem[1], 1, 25) = "In careful lines I study "

C8_Witness ==
    /\ fb_poem # None
    /\ fb_prompt # ""
    /\ Strip(fb_prompt) = ""

\* C9: the poem has 4 lines when the un-escaped, trimmed prompt has at most
\* 3 words and 6 lines otherwise.
C9_FourOrSixLines ==
    fb_poem # None
    => NumLines(fb_poem[1]) =
         IF Len(Split(Strip(Unescape(fb_prompt)))) <= 3 THEN 4 ELSE 6

----------------------------------------------------------------------------
(* Properties of the extractor *)

\* the text attributes of the parts of one candidate, in order
CandidateTexts(cand) ==
    IF cand.content = None \/ cand.content[1].parts = None THEN <<>>
    ELSE [i \in 1..Len(cand.content[1].parts[1]) |-> cand.content[1].parts[1][i].text]

\* the text attributes of all parts of the first n candidates of cands
RECURSIVE TextsUpTo(_, _)
TextsUpTo(cands, n) ==
    IF n = 0 THEN <<>> ELSE TextsUpTo(cands, n - 1) \o CandidateTexts(cands[n])

\* the text attributes of all parts of a response, candidates then parts
AllPartTexts(response) ==
    IF response.candidates = None THEN <<>>
    ELSE TextsUpTo(response.candidates[1], Len(response.candidates[1]))

IsNonEmptyText(t) == t # None /\ t[1] # ""

IsNonBlankText(t) == t # None /\ Strip(t[1]) # ""

\* the trimmed texts of the parts that have text left after trimming
TrimmedTexts(response) ==
    LET kept == SelectSeq(AllPartTexts(response), IsNonBlankText)
    IN  [i \in 1..Len(kept) |-> Strip(kept[i][1])]

\* C11: for a response with at least one part whose text is not empty,
\* extract_text_from_response returns the trimmed texts of the parts of all
\* candidates that have text (a part that trimming empties adds nothing),
\* joined by single newlines, candidates in order and parts in order.
C11_ExtractsAllParts ==
    (/\ ex_text[1] = "returned"
     /\ \E i \in 1..Len(AllPartTexts(ex_response)) :
            IsNonEmptyText(AllPartTexts(ex_response)[i]))
    => ex_text[2] = Some(Join("\n", TrimmedTexts(ex_response)))

C11_Witness ==
    /\ ex_response = RespThreeCandidates
    /\ ex_text = <<"returned", Some("a\nb\nc\nd")>>

\* C12: extract_text_from_response returns for every response, whatever
\* is missing in it; the result is None or a text that is not empty; it is
\* None when there is no candidate and when no part of any candidate has a
\* text that is not empty.
C12_NoneOrNonEmpty ==
    ex_text[1] = "returned"
    => /\ ex_text[2] = None \/ ex_text[2][1] # ""
       /\ (\A i \in 1..Len(AllPartTexts(ex_response)) :
              ~IsNonEmptyText(AllPartTexts(ex_response)[i]))
          => ex_text[2] = None

----------------------------------------------------------------------------
(* The end-to-end scenario *)

GAN_PROMPT == "Explain the pipeline of a GAN"

\* the text before the first line break
FirstLine(t) ==
    IF Find(t, "\n") = 0 THEN t ELSE SubSeq(t, 1, Find(t, "\n") - 1)

\* kelly_reply returns for the GAN prompt with a budget of 2 after every
\* call raised
GanScenario ==
    /\ pc = "return"
    /\ prompt = GAN_PROMPT
    /\ max_retries = 2
    /\ \A i \in 1..Len(outcomes) : outcomes[i] = "raise"

\* what the scenario ends in, for a given first line of the poem
GanEnding(first_line) ==
    /\ Len(calls) = 2
    /\ sleeps = <<6, 6>>
    /\ source = "fallback"
    /\ NumLines(text) = 6
    /\ FirstLine(text) = first_line
    /\ history' = Append(history, [role |-> "assistant", content |-> text \o NOTE])

\* C10 as stated: 2 attempts, a 0.6 s backoff after each, a fallback poem of
\* 6 lines that begins "In careful lines I study the a GAN," and the note.
C10_AsStated ==
    [][GanScenario => GanEnding("In careful lines I study the a GAN,")]_vars

\* C10 amended: the same, but the first line has two spaces between "the"
\* and "a" (removing "pipeline of" leaves the spaces on both sides of it).
C10_GanScenario ==
    [][GanScenario => GanEnding("In careful lines I study the  a GAN,")]_vars

C10_Witness ==
    /\ GanScenario
    /\ Len(calls) = 2
    /\ model_name = "models/gemini-2.5-pro"

====
